---- MODULE Spec2Model ----
(***************************************************************************)
(* CharacterTyper (src/helper/typing.py): a typing engine that injects     *)
(* key-down/key-up events for the characters of a text from a background   *)
(* thread, with typo detours, mode-dependent delays and cooperative        *)
(* cancellation, driven by caller threads through type_text, stop_typing,  *)
(* wait_until_done, press_enter and the configuration setters.             *)
(*                                                                         *)
(* Units: characters are code points; delays are milliseconds; the error   *)
(* rate and the draws of random.random() are thousandths.  Draws of        *)
(* random.uniform(lo, hi) are taken from the end points {lo, hi}.          *)
(***************************************************************************)
EXTENDS Integers, Sequences, FiniteSets, TLC

\* ---------------------------------------------------------------- bounds
MaxLen == 3
MaxSerialLen == 2
MaxConfig == 1
MaxEnters == 2
MaxShortLen == 1

\* ------------------------------------------------------ program constants
NL == 10
BS == 8
MaxTypo == 3
DefaultErrorRate == 5
PauseLo == 100
PauseHi == 300
BackLo == 50
BackHi == 150

INSTANT == "INSTANT"
HUMAN_LIKE == "HUMAN_LIKE"
MACHINE_GUN == "MACHINE_GUN"
TypingMode == {INSTANT, HUMAN_LIKE, MACHINE_GUN}

DefaultDelay == <<50, 200>>
\* random.choice([-2, -1, 1, 2]) of line 147
TypoOffsets == {-2, -1, 1, 2}

\* ------------------------------------------------------------ input sets
\* 'a', '.', ',': a letter and one character of each punctuation class
Alphabet == {97, 46, 44}
\* 'a', '.': a letter and a character that is none
ShortAlphabet == {97, 46}
TextsOver(A, k) == UNION {[1..n -> A] : n \in 0..k}
Texts == TextsOver(Alphabet, MaxLen)
StopTexts == TextsOver(ShortAlphabet, MaxLen)
SerialTexts == TextsOver(ShortAlphabet, MaxSerialLen)
ShortTexts == TextsOver(ShortAlphabet, MaxShortLen)
SpeedInputs == {<<30, 100>>}
RateInputs == {-500, 0, 1500}
RandomDraws == {0, 999}
\* the draws of random.choice taken: one offset of each sign
OffsetDraws == {o \in TypoOffsets : o \in {-2, 1}}
\* the caller thread of the one-caller specifications
Callers == {1}
\* every thread that may call the engine
AllCallers == {1, 2}
Tasks == {1, 2}

\* ---------------------------------------------------------- pure helpers
Min(a, b) == IF a < b THEN a ELSE b
Max(a, b) == IF a > b THEN a ELSE b

\* str.isalpha on the ASCII range
IsAlpha(c) == c \in 65..90 \/ c \in 97..122

\* random.uniform(lo, hi), drawn at its end points
Uniform(lo, hi) == {lo, hi}

\* a clamp without its lower bound
ClampRateNoFloor(x) == Min(1000, x)

\* max(0, min(1, error_rate)), in thousandths
ClampRate(x) == Max(0, Min(1000, x))

\* a typo decision that also fires when the draw equals the error rate
TypoTriggeredInclusive(r, rate, char) == r <= rate /\ IsAlpha(char)

\* a typo decision that ignores whether the character is alphabetic
TypoTriggeredAnyChar(r, rate, char) == r < rate

\* random.random() < self._error_rate and char.isalpha()
TypoTriggered(r, rate, char) == r < rate /\ IsAlpha(char)

\* the typo characters of the window text[i .. i + typo_length - 1]
\* (i is the 0-based cursor; off[j] is the draw of random.choice for slot j)
TypoChars(text, i, typo_length, off) ==
    [j \in 1..typo_length |->
        IF i + (j - 1) < Len(text) /\ IsAlpha(text[i + j])
        THEN text[i + j] + off[j]
        ELSE text[i + j]]

\* random.randint(1, min(3, len(text) - i))
TypoLengths(text, i) == 1..Min(MaxTypo, Len(text) - i)

\* the HUMAN_LIKE delay of char after a base draw
HumanDelay(base, char, last_char) ==
    LET d1 == IF char \in {44, 59, 58} THEN (base * 15) \div 10
              ELSE IF char \in {46, 33, 63} THEN base * 2
              ELSE base
    IN  IF char = last_char THEN (d1 * 8) \div 10 ELSE d1

\* ------------------------------------------------------------------ state
VARIABLES
    typing_delay,   \* self._typing_delay, <<min, max>>
    error_rate,     \* self._error_rate
    mode,           \* self._mode
    stop_event,     \* self._stop_event
    typing_thread,  \* self._typing_thread: 0 is None, else a thread id
    ntasks,         \* number of Thread objects created so far
    nconfig,        \* number of configuration calls made so far
    task,           \* per thread: its position and the locals of its frames
    caller,         \* per caller thread: its position inside the public call
    held,           \* the OS input stream: the keys down, <<source, char>>
    enters,         \* per caller: key-down / key-up events of press_enter
    hist            \* per thread: history of what it did (observation only)

vars == <<typing_delay, error_rate, mode, stop_event, typing_thread, ntasks,
          nconfig, task, caller, held, enters, hist>>

NoSleep == [kind |-> "none", base |-> 0, len |-> 0, mode |-> "none", ch |-> 0,
            prev |-> 0]
NoStop == [set |-> FALSE, n |-> 0, chars |-> 0, iters |-> 0, det |-> FALSE,
           returned |-> FALSE, late |-> FALSE, idle |-> FALSE]
NoDetour == [open |-> FALSE, i |-> 0, len |-> 0, seq |-> <<>>]

\* A thread: its position (pc), the locals of _simulate_typing (text, i,
\* last_char, char) and of _simulate_typo (typo_length, typo_chars, j), the
\* argument and return point of the _send_input in progress (cur, ret), the
\* time.sleep in progress (slp) and the number of mode delays (lines 194,
\* 196) begun in the loop iteration in progress (delays).
NewTask == [pc |-> "new", text |-> <<>>, i |-> 0, last_char |-> 0, char |-> 0,
            typo_length |-> 0, typo_chars |-> <<>>, j |-> 0, cur |-> 0,
            ret |-> "none", slp |-> NoSleep, delays |-> 0]

\* What a thread has done so far.  net is the text its characters have
\* committed; last and prev are the last two characters it injected (0:
\* none); inOrder says that every character it injected was the source
\* character following the text committed before it; detoured that it
\* entered a typo detour; rate0 that the error rate was 0 at each of its
\* typo decisions; det holds the characters of the detour in progress.
\* stop is set when stop_typing sets the flag while the thread runs: n is
\* the number of source characters then
\* remaining, chars / iters count the characters injected and the loop
\* iterations begun after that, det says that the iteration then in
\* progress is a detour, returned that stop_typing has returned, late that
\* a key event came after that; stop.idle says that stop_typing was called
\* after the thread had ended and before another was made.  awaited says that a type_text call waited
\* in join() for the thread.  failed says that an injection raised,
\* rejected that the OS refused an event without raising, postfail that
\* the thread sent a key-down after that.
NewHist == [net |-> <<>>, last |-> 0, prev |-> 0, inOrder |-> TRUE,
            detoured |-> FALSE, rate0 |-> TRUE, cancelled |-> FALSE,
            failed |-> FALSE, det |-> NoDetour, stop |-> NoStop,
            awaited |-> FALSE, rejected |-> FALSE, postfail |-> FALSE]

\* A caller thread: its position (pc), the text argument of its type_text,
\* the thread its join() waits for; waited says that its last call of
\* wait_until_done has returned and it has not called type_text since.
NewCaller == [pc |-> "idle", text |-> <<>>, join |-> 0, waited |-> FALSE]

\* Thread.is_alive(): started and not yet finished
IsAlive(t) == task[t].pc \notin {"new", "created", "done", "failed"}
\* what Thread.join() waits for
IsFinished(t) == task[t].pc \in {"done", "failed"}

\* the text a character stream commits: 0x08 deletes the last committed one
RECURSIVE Commit(_, _)
Commit(acc, cs) ==
    IF cs = <<>> THEN acc
    ELSE IF Head(cs) = BS
         THEN Commit(IF acc = <<>> THEN acc ELSE SubSeq(acc, 1, Len(acc) - 1),
                     Tail(cs))
         ELSE Commit(Append(acc, Head(cs)), Tail(cs))

Init ==
    /\ typing_delay = DefaultDelay
    /\ error_rate = DefaultErrorRate
    /\ mode = HUMAN_LIKE
    /\ stop_event = FALSE
    /\ typing_thread = 0
    /\ ntasks = 0
    /\ nconfig = 0
    /\ task = [t \in Tasks |-> NewTask]
    /\ caller = [c \in AllCallers |-> NewCaller]
    /\ held = {}
    /\ enters = [c \in AllCallers |-> <<0, 0>>]
    /\ hist = [t \in Tasks |-> NewHist]

\* --------------------------------------------------- caller-side operations
\* A caller thread is idle between public calls.
CanCall(c) == caller[c].pc = "idle"

Called(c, pc) == [caller EXCEPT ![c].pc = pc]

\* a type_text that never waits for the running thread
MustJoinNever == FALSE

\* the condition of line 203
MustJoin == typing_thread # 0 /\ IsAlive(typing_thread)

\* type_text, line 203: the test of the running thread
TypeTextCall(c, text) ==
    /\ CanCall(c)
    /\ caller' = [Called(c, IF MustJoin THEN "tt_joincall" ELSE "tt_clear")
                     EXCEPT ![c].text = text, ![c].waited = FALSE]
    /\ UNCHANGED <<typing_delay, error_rate, mode, stop_event, typing_thread,
                   ntasks, task, held, enters, hist, nconfig>>

\* type_text, line 204: self._typing_thread.join() is entered
TypeTextJoinCall(c) ==
    /\ caller[c].pc = "tt_joincall"
    /\ caller' = [caller EXCEPT ![c].pc = "tt_joining", ![c].join = typing_thread]
    /\ UNCHANGED <<typing_delay, error_rate, mode, stop_event, typing_thread,
                   ntasks, task, held, enters, hist, nconfig>>

\* type_text, line 204: join() returns once the thread has finished
TypeTextJoined(c) ==
    /\ caller[c].pc = "tt_joining"
    /\ IsFinished(caller[c].join)
    /\ caller' = [caller EXCEPT ![c].pc = "tt_clear", ![c].join = 0]
    /\ hist' = [hist EXCEPT ![caller[c].join].awaited = TRUE]
    /\ UNCHANGED <<typing_delay, error_rate, mode, stop_event, typing_thread,
                   ntasks, task, held, enters, nconfig>>

\* a clear() that leaves the flag as it is
FlagKept == stop_event

\* the flag after self._stop_event.clear()
FlagCleared == FALSE

\* type_text, line 206: self._stop_event.clear()
TypeTextClear(c) ==
    /\ caller[c].pc = "tt_clear"
    /\ stop_event' = FlagCleared
    /\ caller' = [caller EXCEPT ![c].pc = "tt_create"]
    /\ UNCHANGED <<typing_delay, error_rate, mode, typing_thread, ntasks,
                   task, held, enters, hist, nconfig>>

\* type_text, lines 207-209: the Thread object is made and stored
TypeTextCreate(c) ==
    /\ caller[c].pc = "tt_create"
    /\ ntasks' = ntasks + 1
    /\ typing_thread' = ntasks + 1
    /\ task' = [task EXCEPT ![ntasks + 1] =
                   [NewTask EXCEPT !.pc = "created", !.text = caller[c].text]]
    /\ caller' = [caller EXCEPT ![c].pc = "tt_start"]
    /\ UNCHANGED <<typing_delay, error_rate, mode, stop_event, held, enters, hist,
                   nconfig>>

\* type_text, line 210: self._typing_thread.start(), on the thread the
\* field holds now; start() of a thread already started raises
\* RuntimeError and type_text ends
TypeTextStart(c) ==
    /\ caller[c].pc = "tt_start"
    /\ task' = IF task[typing_thread].pc = "created"
               THEN [task EXCEPT ![typing_thread].pc = "loop"]
               ELSE task
    /\ caller' = [caller EXCEPT ![c].pc = "idle", ![c].text = <<>>]
    /\ UNCHANGED <<typing_delay, error_rate, mode, stop_event, typing_thread,
                   ntasks, held, enters, hist, nconfig>>

\* what a running thread has done when stop_typing sets the flag
StopMark(t) == [NoStop EXCEPT !.set = TRUE,
                               !.n = Len(task[t].text) - task[t].i,
                               !.det = hist[t].det.open]

\* stop_typing, line 214: self._stop_event.set()
StopTypingCall(c) ==
    /\ CanCall(c)
    /\ stop_event' = TRUE
    /\ caller' = Called(c, "st_check")
    /\ hist' = [t \in Tasks |->
                   IF t = typing_thread /\ IsAlive(t)
                   THEN [hist[t] EXCEPT !.stop = StopMark(t)]
                   ELSE IF t = typing_thread /\ IsFinished(t)
                        THEN [hist[t] EXCEPT !.stop.idle = TRUE]
                        ELSE hist[t]]
    /\ UNCHANGED <<typing_delay, error_rate, mode, typing_thread, ntasks,
                   task, held, enters, nconfig>>

\* stop_typing has returned: recorded for the thread it was to stop
StopReturned == [t \in Tasks |->
                    IF hist[t].stop.set
                    THEN [hist[t] EXCEPT !.stop.returned = TRUE]
                    ELSE hist[t]]

\* a stop_typing that sets the flag and returns without joining
StopJoinsNever == FALSE

\* the condition of line 215
StopJoins == typing_thread # 0

\* stop_typing, line 215: if self._typing_thread
StopTypingCheck(c) ==
    /\ caller[c].pc = "st_check"
    /\ IF StopJoins
       THEN /\ caller' = [caller EXCEPT ![c].pc = "st_joincall"]
            /\ UNCHANGED hist
       ELSE /\ caller' = [caller EXCEPT ![c].pc = "idle"]
            /\ hist' = StopReturned
    /\ UNCHANGED <<typing_delay, error_rate, mode, stop_event, typing_thread,
                   ntasks, task, held, enters, nconfig>>

\* stop_typing, line 216: self._typing_thread.join() is entered
StopTypingJoinCall(c) ==
    /\ caller[c].pc = "st_joincall"
    /\ caller' = [caller EXCEPT ![c].pc = "st_joining", ![c].join = typing_thread]
    /\ UNCHANGED <<typing_delay, error_rate, mode, stop_event, typing_thread,
                   ntasks, task, held, enters, hist, nconfig>>

\* stop_typing, line 216: join() returns, and so does stop_typing
StopTypingJoined(c) ==
    /\ caller[c].pc = "st_joining"
    /\ IsFinished(caller[c].join)
    /\ caller' = [caller EXCEPT ![c].pc = "idle", ![c].join = 0]
    /\ hist' = StopReturned
    /\ UNCHANGED <<typing_delay, error_rate, mode, stop_event, typing_thread,
                   ntasks, task, held, enters, nconfig>>

\* a wait_until_done that returns without joining
WaitJoinsNever == FALSE

\* the condition of line 232
WaitJoins == typing_thread # 0

\* wait_until_done, line 232: if self._typing_thread
WaitUntilDoneCall(c) ==
    /\ CanCall(c)
    /\ caller' = IF WaitJoins
                 THEN Called(c, "wt_joincall")
                 ELSE [caller EXCEPT ![c].waited = TRUE]
    /\ UNCHANGED <<typing_delay, error_rate, mode, stop_event, typing_thread,
                   ntasks, task, held, enters, hist, nconfig>>

\* wait_until_done, line 233: self._typing_thread.join() is entered
WaitUntilDoneJoinCall(c) ==
    /\ caller[c].pc = "wt_joincall"
    /\ caller' = [caller EXCEPT ![c].pc = "wt_joining", ![c].join = typing_thread]
    /\ UNCHANGED <<typing_delay, error_rate, mode, stop_event, typing_thread,
                   ntasks, task, held, enters, hist, nconfig>>

\* wait_until_done, line 233: join() returns
WaitUntilDoneJoined(c) ==
    /\ caller[c].pc = "wt_joining"
    /\ IsFinished(caller[c].join)
    /\ caller' = [caller EXCEPT ![c].pc = "idle", ![c].join = 0,
                                ![c].waited = TRUE]
    /\ UNCHANGED <<typing_delay, error_rate, mode, stop_event, typing_thread,
                   ntasks, task, held, enters, hist, nconfig>>

\* set_typing_speed(min_delay, max_delay)
SetTypingSpeed(c, speed) ==
    /\ CanCall(c)
    /\ nconfig' = nconfig + 1
    /\ typing_delay' = speed
    /\ caller' = Called(c, "idle")
    /\ UNCHANGED <<error_rate, mode, stop_event, typing_thread, ntasks, task,
                   held, enters, hist>>

\* set_error_rate(error_rate)
SetErrorRate(c, x) ==
    /\ CanCall(c)
    /\ nconfig' = nconfig + 1
    /\ error_rate' = ClampRate(x)
    /\ caller' = Called(c, "idle")
    /\ UNCHANGED <<typing_delay, mode, stop_event, typing_thread, ntasks,
                   task, held, enters, hist>>

\* set_typing_mode(mode)
SetTypingMode(c, m) ==
    /\ CanCall(c)
    /\ nconfig' = nconfig + 1
    /\ mode' = m
    /\ caller' = Called(c, "idle")
    /\ UNCHANGED <<typing_delay, error_rate, stop_event, typing_thread,
                   ntasks, task, held, enters, hist>>

\* a press_enter that sends two key-down events
PressEnterDownTwice(c) ==
    /\ CanCall(c)
    /\ held' = held \cup {<<0 - c, NL>>}
    /\ enters' = [enters EXCEPT ![c][1] = @ + 2]
    /\ caller' = Called(c, "pe_up")
    /\ UNCHANGED <<typing_delay, error_rate, mode, stop_event, typing_thread,
                   ntasks, task, hist, nconfig>>

\* press_enter -> _send_input("\n"): the key-down event
PressEnterDown(c) ==
    /\ CanCall(c)
    /\ held' = held \cup {<<0 - c, NL>>}
    /\ enters' = [enters EXCEPT ![c][1] = @ + 1]
    /\ caller' = Called(c, "pe_up")
    /\ UNCHANGED <<typing_delay, error_rate, mode, stop_event, typing_thread,
                   ntasks, task, hist, nconfig>>

\* press_enter -> _send_input("\n"): the key-up event, 10 ms later
PressEnterUp(c) ==
    /\ caller[c].pc = "pe_up"
    /\ held' = held \ {<<0 - c, NL>>}
    /\ enters' = [enters EXCEPT ![c][2] = @ + 1]
    /\ caller' = [caller EXCEPT ![c].pc = "idle"]
    /\ UNCHANGED <<typing_delay, error_rate, mode, stop_event, typing_thread,
                   ntasks, task, hist, nconfig>>

\* ------------------------------------------------ the background thread
\* the entry of _send_input(ch); ret is where the caller's frame resumes
Send(t, ch, ret) == [task[t] EXCEPT !.pc = "down", !.cur = ch, !.ret = ret]

\* the entry of time.sleep(len): kind names the call site, base is the draw,
\* mode the typing mode in force, ch / prev the thread's last two injections
Sleep(t, kind, base, len, pc) ==
    [task[t] EXCEPT !.pc = pc,
                    !.slp = [kind |-> kind, base |-> base, len |-> len,
                             mode |-> mode, ch |-> hist[t].last,
                             prev |-> hist[t].prev],
                    !.delays = IF kind \in {"human", "gun"} THEN @ + 1 ELSE @]

\* a loop that never looks at the flag
StopNeverObserved == FALSE

\* the test "self._stop_event.is_set()" of line 175
StopObserved == stop_event

\* _simulate_typing, lines 173-176: loop test, char = text[i], stop check
LoopCheck(t) ==
    /\ task[t].pc = "loop"
    /\ IF task[t].i < Len(task[t].text)
       THEN IF StopObserved
            THEN /\ task' = [task EXCEPT ![t].pc = "done"]
                 /\ hist' = [hist EXCEPT ![t].cancelled = TRUE]
            ELSE /\ task' = [task EXCEPT ![t].pc = "decide",
                                         ![t].char = task[t].text[task[t].i + 1]]
                 /\ hist' = [hist EXCEPT ![t].stop.iters =
                                 IF hist[t].stop.set THEN @ + 1 ELSE @]
       ELSE /\ task' = [task EXCEPT ![t].pc = "done"]
            /\ UNCHANGED hist
    /\ UNCHANGED <<typing_delay, error_rate, mode, stop_event, typing_thread,
                   ntasks, caller, held, enters, nconfig>>

\* _simulate_typing, lines 178-182 and _simulate_typo, lines 142-153:
\* the typo decision; a detour draws its window and typo characters and
\* enters the first _send_input, a normal dispatch enters _send_input(char)
Decide(t) ==
    /\ task[t].pc = "decide"
    /\ \E r \in RandomDraws :
          IF TypoTriggered(r, error_rate, task[t].char)
          THEN \E L \in TypoLengths(task[t].text, task[t].i) :
               \E off \in [1..L -> OffsetDraws] :
                  LET tc == TypoChars(task[t].text, task[t].i, L, off)
                  IN  /\ task' = [task EXCEPT ![t] =
                                     [Send(t, tc[1], "typo_sleep") EXCEPT
                                         !.typo_length = L, !.typo_chars = tc,
                                         !.j = 1]]
                      /\ hist' = [hist EXCEPT
                                     ![t].detoured = TRUE,
                                     ![t].stop.det = @ \/ hist[t].stop.set,
                                     ![t].rate0 = @ /\ error_rate = 0,
                                     ![t].det = [open |-> TRUE,
                                                 i |-> task[t].i, len |-> L,
                                                 seq |-> <<>>]]
          ELSE /\ task' = [task EXCEPT ![t] = Send(t, task[t].char, "mode_human")]
               /\ hist' = [hist EXCEPT ![t].rate0 = @ /\ error_rate = 0]
    /\ UNCHANGED <<typing_delay, error_rate, mode, stop_event, typing_thread,
                   ntasks, caller, held, enters, nconfig>>

\* _send_input, line 84 / 102: the key-down event
Down(t) ==
    /\ task[t].pc = "down"
    /\ held' = held \cup {<<t, task[t].cur>>}
    /\ task' = [task EXCEPT ![t].pc = "up"]
    /\ hist' = [hist EXCEPT
                   ![t].stop.chars = IF hist[t].stop.set THEN @ + 1 ELSE @,
                   ![t].stop.late = @ \/ hist[t].stop.returned,
                   ![t].postfail = @ \/ hist[t].rejected,
                   ![t].inOrder = /\ @
                                  /\ Len(hist[t].net) < Len(task[t].text)
                                  /\ task[t].cur =
                                         task[t].text[Len(hist[t].net) + 1],
                   ![t].net = Commit(@, <<task[t].cur>>),
                   ![t].prev = hist[t].last,
                   ![t].last = task[t].cur,
                   ![t].det.seq = IF hist[t].det.open
                                  THEN Append(@, task[t].cur) ELSE @]
    /\ UNCHANGED <<typing_delay, error_rate, mode, stop_event, typing_thread,
                   ntasks, caller, enters, nconfig>>

\* _send_input, lines 85-87 / 119-121: 10 ms later, the key-up event
Up(t) ==
    /\ task[t].pc = "up"
    /\ held' = held \ {<<t, task[t].cur>>}
    /\ task' = [task EXCEPT ![t].pc = task[t].ret, ![t].ret = "none"]
    /\ hist' = [hist EXCEPT ![t].stop.late = @ \/ hist[t].stop.returned]
    /\ UNCHANGED <<typing_delay, error_rate, mode, stop_event, typing_thread,
                   ntasks, caller, enters, nconfig>>

\* _send_input raises (the display connection is lost, the event is
\* rejected): the exception unwinds _simulate_typing and the thread ends
SendFails(t) ==
    /\ task[t].pc \in {"down", "up"}
    /\ task' = [task EXCEPT ![t].pc = "failed"]
    /\ hist' = [hist EXCEPT ![t].failed = TRUE]
    /\ UNCHANGED <<typing_delay, error_rate, mode, stop_event, typing_thread,
                   ntasks, caller, held, enters, nconfig>>

\* _windows_send_input, lines 84 and 87: SendInput inserts no event and
\* returns 0 (the input is blocked); the return value is not looked at and
\* _send_input goes on
SendRejected(t) ==
    /\ task[t].pc \in {"down", "up"}
    /\ task' = [task EXCEPT
                   ![t].pc = IF task[t].pc = "down" THEN "up" ELSE task[t].ret,
                   ![t].ret = IF task[t].pc = "down" THEN @ ELSE "none"]
    /\ hist' = [hist EXCEPT ![t].rejected = TRUE]
    /\ UNCHANGED <<typing_delay, error_rate, mode, stop_event, typing_thread,
                   ntasks, caller, held, enters, nconfig>>

\* an iteration that ends without moving the cursor
AdvanceStuck(t) == [task[t] EXCEPT !.pc = "loop", !.last_char = task[t].char,
                                   !.slp = NoSleep, !.delays = 0]

\* lines 198-199: last_char = char, i += 1, back to the loop test
Advance(t) == [task[t] EXCEPT !.pc = "loop", !.last_char = task[t].char,
                              !.i = @ + 1, !.slp = NoSleep, !.delays = 0]

\* _simulate_typing, lines 184-194: the INSTANT and HUMAN_LIKE tests; the
\* HUMAN_LIKE delay is drawn, scaled and slept
ModeHuman(t) ==
    /\ task[t].pc = "mode_human"
    /\ IF mode = HUMAN_LIKE
       THEN \E base \in Uniform(typing_delay[1], typing_delay[2]) :
               task' = [task EXCEPT ![t] =
                           Sleep(t, "human", base,
                                 HumanDelay(base, task[t].char, task[t].last_char),
                                 "human_slept")]
       ELSE task' = [task EXCEPT ![t].pc = "mode_gun"]
    /\ UNCHANGED <<typing_delay, error_rate, mode, stop_event, typing_thread,
                   ntasks, caller, held, enters, hist, nconfig>>

\* line 194: time.sleep(delay) returns
HumanWake(t) ==
    /\ task[t].pc = "human_slept"
    /\ task' = [task EXCEPT ![t].pc = "mode_gun", ![t].slp = NoSleep]
    /\ UNCHANGED <<typing_delay, error_rate, mode, stop_event, typing_thread,
                   ntasks, caller, held, enters, hist, nconfig>>

\* _simulate_typing, lines 195-199: the MACHINE_GUN test; without a sleep
\* the iteration ends here
ModeGun(t) ==
    /\ task[t].pc = "mode_gun"
    /\ task' = [task EXCEPT ![t] =
                   IF mode = MACHINE_GUN
                   THEN Sleep(t, "gun", typing_delay[1], typing_delay[1],
                              "gun_slept")
                   ELSE Advance(t)]
    /\ UNCHANGED <<typing_delay, error_rate, mode, stop_event, typing_thread,
                   ntasks, caller, held, enters, hist, nconfig>>

\* lines 196-199: time.sleep(self._typing_delay[0]) returns, the iteration ends
GunWake(t) ==
    /\ task[t].pc = "gun_slept"
    /\ task' = [task EXCEPT ![t] = Advance(t)]
    /\ UNCHANGED <<typing_delay, error_rate, mode, stop_event, typing_thread,
                   ntasks, caller, held, enters, hist, nconfig>>

\* the delay after a typo character or a re-typed original (lines 155, 165)
DetourDelay(lo, hi) == Uniform(lo, hi)

\* _simulate_typo, line 155: the sleep after a typo character
TypoSleep(t) ==
    /\ task[t].pc = "typo_sleep"
    /\ \E d \in DetourDelay(typing_delay[1], typing_delay[2]) :
          task' = [task EXCEPT ![t] = Sleep(t, "typo", d, d, "typo_slept")]
    /\ UNCHANGED <<typing_delay, error_rate, mode, stop_event, typing_thread,
                   ntasks, caller, held, enters, hist, nconfig>>

\* _simulate_typo, lines 153-156: the next typo character, or after the
\* last one the recognition pause
TypoNext(t) ==
    /\ task[t].pc = "typo_slept"
    /\ IF task[t].j < Len(task[t].typo_chars)
       THEN task' = [task EXCEPT ![t] =
                        [Send(t, task[t].typo_chars[task[t].j + 1], "typo_sleep")
                            EXCEPT !.j = @ + 1, !.slp = NoSleep]]
       ELSE \E d \in Uniform(PauseLo, PauseHi) :
               task' = [task EXCEPT ![t] = Sleep(t, "pause", d, d, "pause_slept")]
    /\ UNCHANGED <<typing_delay, error_rate, mode, stop_event, typing_thread,
                   ntasks, caller, held, enters, hist, nconfig>>

\* a detour that sends one backspace too few
BackspacesOneLess(typo_chars) == Len(typo_chars) - 1

\* a detour that sends one backspace too many
BackspacesOneMore(typo_chars) == Len(typo_chars) + 1

\* the number of backspaces of a detour (line 158: for _ in typo_chars)
Backspaces(typo_chars) == Len(typo_chars)

\* a detour that re-types the first original of its window in every slot
RetypeCharFirst(text, i, j) == text[i + 1]

\* the original re-typed in slot j of the window (line 164)
RetypeChar(text, i, j) == text[i + j]

\* _simulate_typo, lines 162-164 and 167, and line 179: the re-type loop
\* from slot j on; at its end the detour returns and i += typo_length
RECURSIVE RetypeFrom(_, _)
RetypeFrom(t, j) ==
    IF j > task[t].typo_length
    THEN [task[t] EXCEPT !.pc = "loop", !.i = @ + task[t].typo_length,
                         !.typo_length = 0, !.typo_chars = <<>>, !.j = 0,
                         !.slp = NoSleep]
    ELSE IF task[t].i + (j - 1) < Len(task[t].text)
         THEN [Send(t, RetypeChar(task[t].text, task[t].i, j), "retype_sleep")
                  EXCEPT !.j = j, !.slp = NoSleep]
         ELSE RetypeFrom(t, j + 1)

\* the detour returns exactly when no _send_input follows
Returns(rec) == rec.pc = "loop"

\* _simulate_typo, lines 158-159: the pause is over, the first backspace
BackFirst(t) ==
    /\ task[t].pc = "pause_slept"
    /\ LET rec == IF Backspaces(task[t].typo_chars) >= 1
                  THEN [Send(t, BS, "back_sleep") EXCEPT !.j = 1, !.slp = NoSleep]
                  ELSE RetypeFrom(t, 1)
       IN  /\ task' = [task EXCEPT ![t] = rec]
           /\ hist' = IF Returns(rec) THEN [hist EXCEPT ![t].det = NoDetour]
                      ELSE hist
    /\ UNCHANGED <<typing_delay, error_rate, mode, stop_event, typing_thread,
                   ntasks, caller, held, enters, nconfig>>

\* _simulate_typo, line 160: the sleep after a backspace
BackSleep(t) ==
    /\ task[t].pc = "back_sleep"
    /\ \E d \in Uniform(BackLo, BackHi) :
          task' = [task EXCEPT ![t] = Sleep(t, "back", d, d, "back_slept")]
    /\ UNCHANGED <<typing_delay, error_rate, mode, stop_event, typing_thread,
                   ntasks, caller, held, enters, hist, nconfig>>

\* _simulate_typo, lines 158-164: the next backspace, or after the last one
\* the first re-typed original
BackNext(t) ==
    /\ task[t].pc = "back_slept"
    /\ LET rec == IF task[t].j < Backspaces(task[t].typo_chars)
                  THEN [Send(t, BS, "back_sleep") EXCEPT !.j = @ + 1,
                                                         !.slp = NoSleep]
                  ELSE RetypeFrom(t, 1)
       IN  /\ task' = [task EXCEPT ![t] = rec]
           /\ hist' = IF Returns(rec) THEN [hist EXCEPT ![t].det = NoDetour]
                      ELSE hist
    /\ UNCHANGED <<typing_delay, error_rate, mode, stop_event, typing_thread,
                   ntasks, caller, held, enters, nconfig>>

\* _simulate_typo, line 165: the sleep after a re-typed original
RetypeSleep(t) ==
    /\ task[t].pc = "retype_sleep"
    /\ \E d \in DetourDelay(typing_delay[1], typing_delay[2]) :
          task' = [task EXCEPT ![t] = Sleep(t, "retype", d, d, "retype_slept")]
    /\ UNCHANGED <<typing_delay, error_rate, mode, stop_event, typing_thread,
                   ntasks, caller, held, enters, hist, nconfig>>

\* _simulate_typo, lines 162-167: the next re-typed original, or the return
RetypeNext(t) ==
    /\ task[t].pc = "retype_slept"
    /\ LET rec == RetypeFrom(t, task[t].j + 1)
       IN  /\ task' = [task EXCEPT ![t] = rec]
           /\ hist' = IF Returns(rec) THEN [hist EXCEPT ![t].det = NoDetour]
                      ELSE hist
    /\ UNCHANGED <<typing_delay, error_rate, mode, stop_event, typing_thread,
                   ntasks, caller, held, enters, nconfig>>

\* ----------------------------------------------------------- specification
\* the steps of a background thread when its injections succeed
Thread(t) ==
    \/ LoopCheck(t)
    \/ Decide(t)
    \/ Down(t)
    \/ Up(t)
    \/ ModeHuman(t)
    \/ HumanWake(t)
    \/ ModeGun(t)
    \/ GunWake(t)
    \/ TypoSleep(t)
    \/ TypoNext(t)
    \/ BackFirst(t)
    \/ BackSleep(t)
    \/ BackNext(t)
    \/ RetypeSleep(t)
    \/ RetypeNext(t)

\* the type_text calls made so far, returned or not
Typed ==
    ntasks + Cardinality({c \in AllCallers : caller[c].pc \in
                 {"tt_joincall", "tt_joining", "tt_clear", "tt_create"}})

\* type_text(text), from the call to its return; at most limit calls, with
\* texts from the set given
TypeText(c, limit, texts) ==
    \/ Typed < limit /\ \E text \in texts : TypeTextCall(c, text)
    \/ TypeTextJoinCall(c)
    \/ TypeTextJoined(c)
    \/ TypeTextClear(c)
    \/ TypeTextCreate(c)
    \/ TypeTextStart(c)

\* type_text(text) on an engine that has started no thread yet: line 203
\* finds no thread to wait for
TypeTextOnce(c, texts) ==
    \/ Typed < 1 /\ \E text \in texts : TypeTextCall(c, text)
    \/ TypeTextClear(c)
    \/ TypeTextCreate(c)
    \/ TypeTextStart(c)

\* set_typing_mode(mode), at most MaxConfig calls of it
ConfigureMode(c) ==
    /\ nconfig < MaxConfig
    /\ \E m \in TypingMode : SetTypingMode(c, m)

\* the configuration setters, at most MaxConfig calls of them
Configure(c) ==
    /\ nconfig < MaxConfig
    /\ \/ \E speed \in SpeedInputs : SetTypingSpeed(c, speed)
       \/ \E x \in RateInputs : SetErrorRate(c, x)
       \/ \E m \in TypingMode : SetTypingMode(c, m)

\* Spec: a caller types one text and may reconfigure the engine at any
\* moment; injections may fail.
Next ==
    \/ \E c \in Callers :
          \/ TypeTextOnce(c, Texts)
          \/ Configure(c)
    \/ \E t \in Tasks : Thread(t) \/ SendFails(t)

Spec == Init /\ [][Next]_vars

\* stop_typing(), from the call to its return
StopTyping(c) ==
    \/ StopTypingCall(c)
    \/ StopTypingCheck(c)
    \/ StopTypingJoinCall(c)
    \/ StopTypingJoined(c)

\* SpecStop: a caller types one text and may call stop_typing and change
\* the typing mode at any moment; injections may fail.  At the default
\* error rate both outcomes of every typo decision occur.
NextStop ==
    \/ \E c \in Callers :
          \/ TypeTextOnce(c, StopTexts)
          \/ StopTyping(c)
          \/ ConfigureMode(c)
    \/ \E t \in Tasks : Thread(t) \/ SendFails(t)

SpecStop == Init /\ [][NextStop]_vars

\* SpecSerial: a caller calls type_text(textA) and then type_text(textB)
\* without waiting, with no stop_typing and no injection failure; it may
\* change the typing mode at any moment.
NextSerial ==
    \/ \E c \in Callers :
          \/ TypeText(c, 2, SerialTexts)
          \/ ConfigureMode(c)
    \/ \E t \in Tasks : Thread(t)

SpecSerial == Init /\ [][NextSerial]_vars

\* press_enter(), from the call to its return; at most MaxEnters calls
PressEnter(c) ==
    \/ enters[c][1] < MaxEnters /\ PressEnterDown(c)
    \/ PressEnterUp(c)

\* SpecEnter: a caller types one text and may call press_enter and
\* reconfigure the engine at any moment.
NextEnter ==
    \/ \E c \in Callers :
          \/ TypeTextOnce(c, SerialTexts)
          \/ PressEnter(c)
          \/ Configure(c)
    \/ \E t \in Tasks : Thread(t)

SpecEnter == Init /\ [][NextEnter]_vars

\* SpecFail: a caller calls type_text twice and may change the typing mode
\* at any moment; an injection may raise or be refused by the OS.
NextFail ==
    \/ \E c \in Callers :
          \/ TypeText(c, 2, ShortTexts)
          \/ ConfigureMode(c)
    \/ \E t \in Tasks : Thread(t) \/ SendFails(t) \/ SendRejected(t)

SpecFail == Init /\ [][NextFail]_vars

\* wait_until_done(), from the call to its return
WaitUntilDone(c) ==
    \/ WaitUntilDoneCall(c)
    \/ WaitUntilDoneJoinCall(c)
    \/ WaitUntilDoneJoined(c)

\* AutoTyper._handle_typing: type_text(text), then wait_until_done(), then
\* press_enter()
HandleTyping(c, texts) ==
    \/ TypeTextOnce(c, texts)
    \/ ntasks = 1 /\ ~caller[c].waited /\ WaitUntilDone(c)
    \/ ntasks = 1 /\ caller[c].waited /\ enters[c][1] < 1 /\ PressEnterDown(c)
    \/ PressEnterUp(c)

\* SpecHandle: a caller may call wait_until_done before anything was typed
\* and then runs _handle_typing once; meanwhile a second thread may change
\* the typing mode and, once the typing thread runs, call stop_typing.
NextHandle ==
    \/ \E c \in Callers :
          \/ Typed = 0 /\ ~caller[c].waited /\ WaitUntilDone(c)
          \/ HandleTyping(c, SerialTexts)
    \/ \E c \in AllCallers \ Callers :
          \/ typing_thread # 0 /\ IsAlive(typing_thread) /\ StopTypingCall(c)
          \/ StopTypingCheck(c)
          \/ StopTypingJoinCall(c)
          \/ StopTypingJoined(c)
          \/ ConfigureMode(c)
    \/ \E t \in Tasks : Thread(t)

SpecHandle == Init /\ [][NextHandle]_vars

\* no thread was made yet, or the last one made is not alive
NoTaskRunning == IF typing_thread = 0 THEN TRUE ELSE ~IsAlive(typing_thread)

\* SpecIdleStop: a caller calls type_text twice and may change the typing
\* mode at any moment; it calls stop_typing only while no typing thread is
\* running.
NextIdleStop ==
    \/ \E c \in Callers :
          \/ TypeText(c, 2, ShortTexts)
          \/ NoTaskRunning /\ StopTypingCall(c)
          \/ StopTypingCheck(c)
          \/ StopTypingJoinCall(c)
          \/ StopTypingJoined(c)
          \/ ConfigureMode(c)
    \/ \E t \in Tasks : Thread(t)

SpecIdleStop == Init /\ [][NextIdleStop]_vars

\* SpecTwo: two caller threads call type_text, twice in all, at any
\* moment; the typing mode may change at any moment.
NextTwo ==
    \/ \E c \in AllCallers :
          \/ TypeText(c, 2, ShortTexts)
          \/ ConfigureMode(c)
    \/ \E t \in Tasks : Thread(t)

SpecTwo == Init /\ [][NextTwo]_vars

\* SpecTerm: a caller types one text; the typing mode may change at any
\* moment; every injection and every sleep returns, and a thread that can
\* take a step is scheduled in the end.
NextTerm ==
    \/ \E c \in Callers :
          \/ TypeTextOnce(c, StopTexts)
          \/ ConfigureMode(c)
    \/ \E t \in Tasks : Thread(t)

SpecTerm == Init /\ [][NextTerm]_vars /\ \A t \in Tasks : WF_vars(Thread(t))

\* ------------------------------------------------------------------ claims
Started(t) == task[t].pc \notin {"new", "created"}
CompletedInFull(t) ==
    /\ task[t].pc = "done"
    /\ ~hist[t].cancelled
    /\ hist[t].net = task[t].text

\* C1: serialization.  When one caller calls type_text(textA) and then
\* type_text(textB) without waiting, with no stop_typing and no injection
\* failure, the thread of textB is started only after the thread of textA
\* has exited having typed textA in full; so every injection of textA comes
\* before the first injection of textB and the two threads never run at
\* the same time.
C1_Serialized ==
    \A a, b \in Tasks :
        a < b /\ Started(b) =>
            /\ CompletedInFull(a)
            /\ ~(IsAlive(a) /\ IsAlive(b))

\* C1 witness: textB's thread has injected a character after the second
\* type_text call had to wait in join() for textA's thread.
C1_Witness ==
    /\ hist[1].awaited
    /\ hist[2].last # 0
    /\ Len(task[1].text) = MaxSerialLen

\* C2: stop_typing called while a thread runs returns only after that
\* thread has exited: when it has returned the thread is finished and no
\* key event of the thread came after the return.
C2_StopReturnsAfterExit ==
    \A t \in Tasks :
        hist[t].stop.returned => IsFinished(t) /\ ~hist[t].stop.late

\* C2 witness: stop_typing has returned from a call made while the thread
\* still had source characters to type, and the thread ended by observing
\* the flag.
C2_Witness ==
    \E t \in Tasks :
        /\ hist[t].stop.returned
        /\ hist[t].stop.n >= 1
        /\ hist[t].cancelled
        /\ task[t].i < Len(task[t].text)

Backs(k) == [x \in 1..k |-> BS]

\* the shape of a finished detour over the window of len characters at
\* cursor i: len typo characters, none of them a backspace, then as many
\* backspaces, then the originals of the window
DetourShape(seq, text, i, len) ==
    /\ Len(seq) = 3 * len
    /\ \A k \in 1..len : seq[k] # BS
    /\ SubSeq(seq, len + 1, 2 * len) = Backs(len)
    /\ SubSeq(seq, 2 * len + 1, 3 * len) = SubSeq(text, i + 1, i + len)

\* the last _send_input of a detour has returned
DetourFinished(t) ==
    /\ task[t].pc \in {"retype_sleep", "retype_slept"}
    /\ task[t].j = task[t].typo_length

\* C5: content preservation.  A thread that ended neither cancelled nor by
\* a failed injection has committed exactly its source text (each 0x08
\* deleting the character committed before it); every finished detour
\* consists of its typo characters, as many backspaces, and then exactly
\* the original characters of its window.
C5_ContentPreserved ==
    \A t \in Tasks :
        /\ (task[t].pc = "done" /\ ~hist[t].cancelled /\ ~hist[t].failed
               => hist[t].net = task[t].text)
        /\ (DetourFinished(t)
               => /\ DetourShape(hist[t].det.seq, task[t].text,
                                 hist[t].det.i, hist[t].det.len)
                  /\ hist[t].net = SubSeq(task[t].text, 1,
                                          hist[t].det.i + hist[t].det.len))

\* C5 witness: a thread has typed a text of the greatest length to its end
\* through at least one detour.
C5_Witness ==
    \E t \in Tasks :
        /\ task[t].pc = "done"
        /\ hist[t].detoured
        /\ ~hist[t].failed
        /\ Len(task[t].text) = MaxLen
        /\ hist[t].net = task[t].text

\* the keys of thread t that are down
HeldBy(t) == {h \in held : h[1] = t}

\* C6: a thread all of whose typo decisions saw error rate 0 takes no
\* detour and injects the source characters one by one in source order, so
\* that when it ends (not cancelled, no failed injection) it has injected
\* exactly text[0], text[1], ...; each key-down is followed by the key-up of
\* the same character before its next key event; it sleeps only after an
\* injection, never before the first.
C6_InOrderAtRateZero ==
    \A t \in Tasks :
        hist[t].rate0 /\ ~hist[t].failed =>
            /\ ~hist[t].detoured
            /\ hist[t].inOrder
            /\ hist[t].net = SubSeq(task[t].text, 1, Len(hist[t].net))
            /\ Len(hist[t].net) \in {task[t].i, task[t].i + 1}
            /\ (task[t].pc = "done" /\ ~hist[t].cancelled
                   => hist[t].net = task[t].text)
            /\ HeldBy(t) = IF task[t].pc = "up" THEN {<<t, task[t].cur>>} ELSE {}
            /\ (task[t].slp.kind # "none" => task[t].slp.ch # 0)
            /\ (hist[t].last = 0 => task[t].slp.kind = "none")

\* C6 witness: with the error rate set to 0 a thread has typed a text of
\* the greatest length to its end.
C6_Witness ==
    \E t \in Tasks :
        /\ error_rate = 0
        /\ hist[t].rate0
        /\ task[t].pc = "done"
        /\ Len(task[t].text) = MaxLen
        /\ hist[t].net = task[t].text

NoAlpha(text) == \A k \in 1..Len(text) : ~IsAlpha(text[k])

\* C7: a thread typing a text without alphabetic characters never enters
\* the typo detour, whatever the error rate: it injects no substituted
\* character and no backspace, only the source characters in order.
C7_NoDetourWithoutAlpha ==
    \A t \in Tasks :
        Started(t) /\ NoAlpha(task[t].text) =>
            /\ ~hist[t].detoured
            /\ ~hist[t].det.open
            /\ hist[t].inOrder
            /\ hist[t].last # BS

\* C7 witness: with error rate 1 a thread has typed a text of the greatest
\* length without alphabetic characters to its end.
C7_Witness ==
    \E t \in Tasks :
        /\ error_rate = 1000
        /\ ~hist[t].rate0
        /\ NoAlpha(task[t].text)
        /\ Len(task[t].text) = MaxLen
        /\ task[t].pc = "done"
        /\ hist[t].net = task[t].text

\* the value max(0, min(1, x)) of the claim, in thousandths
Clamped(x) == IF x < 0 THEN 0 ELSE IF x > 1000 THEN 1000 ELSE x

\* C8: every set_error_rate(x) leaves the active error rate equal to
\* max(0, min(1, x)), and the active error rate is always within [0, 1].
C8_ErrorRateClamped ==
    /\ [](error_rate \in 0..1000)
    /\ [][\A c \in Callers : \A x \in RateInputs :
             SetErrorRate(c, x) => error_rate' = Clamped(x)]_vars

\* C8 witness: set_error_rate has been called with a value above 1 and the
\* active rate is 1.
C8_Witness ==
    /\ nconfig >= 1
    /\ error_rate = 1000
    /\ \E x \in RateInputs : x > 1000

\* C9 as stated: a sleep begun in INSTANT mode has length 0, whatever the
\* error rate and the delay range.
C9_InstantNeverSleeps ==
    \A t \in Tasks :
        task[t].slp.kind # "none" /\ task[t].slp.mode = INSTANT
            => task[t].slp.len = 0

\* the delay rule of the claim: the base draw times 1.5 for , ; : times 2.0
\* for . ! ? and times 0.8 when the character equals the one injected
\* immediately before it
ClaimedDelay(base, ch, before) ==
    LET p == IF ch \in {44, 59, 58} THEN 15
             ELSE IF ch \in {46, 33, 63} THEN 20 ELSE 10
        r == IF ch = before THEN 8 ELSE 10
    IN  (base * p * r) \div 100

\* C10 as stated: the HUMAN_LIKE delay after a normally dispatched
\* character follows the claimed rule with respect to the character
\* injected immediately before it, also when that was the last character
\* of a typo detour.
C10_DelayFollowsPrecedingInjection ==
    \A t \in Tasks :
        task[t].slp.kind = "human" =>
            task[t].slp.len =
                ClaimedDelay(task[t].slp.base, task[t].slp.ch, task[t].slp.prev)


\* C11 as stated: after the injection of a normally dispatched character
\* the delay rule of exactly one mode is applied, whatever configuration
\* calls interleave with the thread: the thread never begins a second mode
\* delay in one loop iteration, and a MACHINE_GUN delay it begins is the
\* only delay of its iteration.
C11_OneDelayRulePerCharacter ==
    \A t \in Tasks :
        /\ task[t].delays <= 1
        /\ (task[t].slp.kind = "gun" => task[t].delays = 1)


\* the keys of caller c's press_enter that are down
EnterHeldBy(c) == {h \in held : h[1] = 0 - c}

\* C12: press_enter injects exactly one key-down / key-up pair of the
\* logical newline and nothing else, whatever the typing mode and the error
\* rate: between its call and its return one newline key-down is out and
\* held, after its return as many key-ups as key-downs have been sent and no
\* key of it is held; every step that sends one of its events is the
\* key-down at the call or the key-up at the return, and changes neither
\* the configuration, the cancellation flag nor any typing thread (no typo
\* detour, no mode delay).
C12_EnterIsOnePair ==
    /\ [](\A c \in Callers :
             /\ enters[c][1] =
                    enters[c][2] + (IF caller[c].pc = "pe_up" THEN 1 ELSE 0)
             /\ EnterHeldBy(c) =
                    IF caller[c].pc = "pe_up" THEN {<<0 - c, NL>>} ELSE {})
    /\ [][\A c \in Callers :
             enters'[c] # enters[c] =>
                 /\ UNCHANGED <<typing_delay, error_rate, mode, stop_event,
                                typing_thread, ntasks, nconfig, task, hist>>
                 /\ \/ /\ caller[c].pc = "idle"
                       /\ caller'[c].pc = "pe_up"
                       /\ enters'[c] = <<enters[c][1] + 1, enters[c][2]>>
                    \/ /\ caller[c].pc = "pe_up"
                       /\ caller'[c].pc = "idle"
                       /\ enters'[c] = <<enters[c][1], enters[c][2] + 1>>]_vars

\* C12 witness: press_enter has returned from a call made at error rate 1
\* while a typing thread was running in a mode other than the default.
C12_Witness ==
    \E c \in Callers : \E t \in Tasks :
        /\ caller[c].pc = "idle"
        /\ enters[c] = <<MaxEnters, MaxEnters>>
        /\ IsAlive(t)
        /\ (error_rate = 1000 \/ mode # HUMAN_LIKE)


\* C18 as stated: key-down / key-up pairs are never split, also when
\* press_enter is called while a typing thread runs: a key that is down is
\* released before any other key event reaches the input stream, so never
\* are two keys down at once.
C18_PairsNeverSplit == Cardinality(held) <= 1


\* C13 as stated: when an injection of a thread fails (it raises, or the OS
\* refuses the event) the thread aborts at once: it sends no further
\* key-down, and once type_text has been called again the failed thread is
\* not running beside the new one.
C13_FailureAbortsTask ==
    \A t \in Tasks :
        hist[t].failed \/ hist[t].rejected =>
            /\ ~hist[t].postfail
            /\ \A u \in Tasks : u # t /\ IsAlive(u) => IsFinished(t)

\* what a caller can read of thread t through the engine: the Thread
\* object's is_alive() and the cancellation flag
Exposed(t) == [alive |-> IsAlive(t), stop_event |-> stop_event]

\* C14 as stated: failure is observable: of two threads that have ended,
\* one aborted by an injection that raised and one that completed, the
\* engine exposes different states.
C14_FailureObservable ==
    \A a, b \in Tasks :
        /\ IsFinished(a) /\ hist[a].failed
        /\ IsFinished(b) /\ ~hist[b].failed
        => Exposed(a) # Exposed(b)


\* C15: wait_until_done returns only after the current typing thread has
\* exited, by completion or by cancellation, and returns at once when no
\* thread was ever started; so in _handle_typing, which calls type_text,
\* wait_until_done and press_enter in this order, the Enter key events come
\* after every key event of the typed text: when Enter goes down the thread
\* has exited and no key of it is down.
C15_EnterAfterText ==
    /\ [](\A c \in Callers :
             /\ (caller[c].waited /\ typing_thread # 0
                    => IsFinished(typing_thread))
             /\ (enters[c][1] > 0
                    => /\ typing_thread # 0
                       /\ IsFinished(typing_thread)
                       /\ HeldBy(typing_thread) = {}))
    /\ [][\A c \in Callers :
             WaitUntilDoneCall(c) /\ typing_thread = 0
                 => caller'[c].pc = "idle" /\ caller'[c].waited]_vars

\* C15 witness: _handle_typing has pressed Enter after its wait_until_done
\* outlasted a thread that injected characters and was then cancelled.
C15_Witness ==
    \E c \in Callers :
        /\ enters[c] = <<1, 1>>
        /\ hist[typing_thread].last # 0
        /\ hist[typing_thread].cancelled
        /\ Len(task[typing_thread].text) = MaxSerialLen


\* C16: stop_typing called while no typing thread is running is a no-op.
\* No step of it injects anything or touches a typing thread; its join, if
\* any, finds the thread already ended, so it returns without blocking; and
\* it has no effect on later threads, as type_text clears the flag before
\* it makes the thread: a running thread never finds the flag set, is never
\* cancelled, and ends having typed its text in full.
C16_IdleStopIsNoOp ==
    /\ [](/\ \A t \in Tasks :
                /\ (IsAlive(t) => ~stop_event)
                /\ ~hist[t].cancelled
                /\ (IsFinished(t) => hist[t].net = task[t].text)
          /\ \A c \in Callers :
                caller[c].pc \in {"st_joincall", "st_joining"}
                    => IsFinished(typing_thread))
    /\ [][\A c \in Callers :
             StopTypingCall(c) \/ StopTypingCheck(c) \/ StopTypingJoinCall(c)
                 \/ StopTypingJoined(c)
             => UNCHANGED <<held, enters, task, typing_thread, ntasks>>]_vars

\* C16 witness: stop_typing was called after the first thread had ended,
\* and the thread of the type_text issued after it has typed a text of the
\* greatest length in full.
C16_Witness ==
    /\ hist[1].stop.idle
    /\ task[2].pc = "done"
    /\ ~hist[2].cancelled
    /\ Len(task[2].text) = MaxShortLen
    /\ hist[2].net = task[2].text


\* C17 as stated: at most one typing thread is active in every reachable
\* state, also when two caller threads call type_text concurrently.
C17_AtMostOneActive == Cardinality({t \in Tasks : IsAlive(t)}) <= 1


\* the thread is inside _simulate_typo
InDetour(t) == task[t].typo_length > 0

\* the cursor is inside the text, and the window of a detour in progress
\* has 1 to min(3, len(text) - i) characters, all of them inside the text
CursorInText(t) ==
    /\ task[t].i <= Len(task[t].text)
    /\ InDetour(t) =>
          /\ 1 <= task[t].typo_length
          /\ task[t].typo_length <= Min(MaxTypo, Len(task[t].text) - task[t].i)
          /\ \A j \in 1..task[t].typo_length :
                task[t].i + (j - 1) < Len(task[t].text)

\* thread t ends a loop iteration: the cursor moves on by 1 after a normal
\* dispatch and by typo_length after a detour
IterationMovesCursor(t) ==
    (Started(t) /\ task[t].pc # "loop" /\ task'[t].pc = "loop") =>
        /\ task'[t].i > task[t].i
        /\ task'[t].i = task[t].i + (IF InDetour(t) THEN task[t].typo_length
                                     ELSE 1)

\* C19: every typing thread over a finite text ends when its injections and
\* sleeps return: each loop iteration moves the cursor on, by 1 or by the
\* length of the detour window (1 to min(3, remaining)), the cursor never
\* passes the end of the text and a detour reads no character beyond it.
C19_TypingTerminates ==
    /\ [](\A t \in Tasks : CursorInText(t))
    /\ [][\A t \in Tasks : IterationMovesCursor(t)]_vars
    /\ \A t \in Tasks : Started(t) ~> (task[t].pc = "done")

\* C19 witness: a thread has typed a text of full length to its end, by
\* normal dispatches and a detour.
C19_Witness ==
    \E t \in Tasks :
        /\ task[t].pc = "done"
        /\ ~hist[t].cancelled
        /\ hist[t].detoured
        /\ Len(task[t].text) = MaxLen
        /\ task[t].i = Len(task[t].text)


\* the thread has left _simulate_typing and no injection of it raised
ExitedWithoutFailure(t) == IsFinished(t) /\ ~hist[t].failed

\* C20: when a thread has ended without an injection failure, at the end of
\* the text or on the stop flag, the text its key events have committed
\* (backspaces applied) is the prefix of the source text up to the cursor:
\* no typo character is left uncorrected.
C20_NetIsPrefix ==
    \A t \in Tasks :
        ExitedWithoutFailure(t) =>
            /\ task[t].i <= Len(task[t].text)
            /\ hist[t].net = SubSeq(task[t].text, 1, task[t].i)

\* C20 witness: stop_typing set the flag while the thread was in a detour;
\* the thread has ended on the flag with a part of the text committed.
C20_Witness ==
    \E t \in Tasks :
        /\ ExitedWithoutFailure(t)
        /\ hist[t].cancelled
        /\ hist[t].stop.det
        /\ hist[t].net # <<>>
        /\ Len(hist[t].net) < Len(task[t].text)

====
